---- MODULE Spec2Model ----
(***************************************************************************)
(* Two single-invocation helper processes of open-whispr:                  *)
(*                                                                         *)
(*   resources/windows-text-monitor.c  polls the focused UI Automation     *)
(*       element's value and reports INITIAL_VALUE / CHANGED lines;        *)
(*   resources/linux-fast-paste.c      synthesizes Ctrl(+Shift)+V through  *)
(*       XTest, after optionally activating a target window.               *)
(*                                                                         *)
(* MonitorSpec is the state machine of the monitor's main(), PasteSpec     *)
(* the one of the paste helper's main().  Each call into the platform      *)
(* (COM, UI Automation, Xlib) is one step whose result is drawn from the   *)
(* results the call can return.                                            *)
(*                                                                         *)
(* Standing assumptions: malloc, printf and fflush succeed; text values    *)
(* hold no embedded NUL and no unpaired surrogate; the X server raises no  *)
(* protocol error (Xlib's default error handler is not part of main()).    *)
(* Sleep lasts at least the interval asked for.                            *)
(***************************************************************************)
EXTENDS Integers, Sequences, FiniteSets, TLC

VARIABLES
    \* ---- windows-text-monitor.c ----
    pc,            \* position of main()
    running,       \* static volatile int running
    hr,            \* HRESULT hr of the last call: "S_OK" or "E_FAIL"
    lastValue,     \* BSTR lastValue   (NULL or <<string>>)
    currentValue,  \* BSTR currentValue of the loop body
    startTime,     \* DWORD startTime
    tick,          \* what GetTickCount() returns now
    out,           \* lines written to stdout, in order
    flushed,       \* how many of them fflush(stdout) has pushed out
    errLines,      \* number of diagnostic lines written to stderr
    held,          \* live references: resource -> count
    badRelease,    \* a release of something not held has happened
    calls,         \* how often each counted platform call has been made
    failed,        \* the acquisition that failed, "none" if none did
    exitStatus,    \* return value of main(), NoExit while running
    sig,           \* history: where main() stood when the signal arrived
    missed,        \* history: the polls since the last value read failed
    recovered,     \* history: the last poll reported a change after such polls
    \* ---- linux-fast-paste.c ----
    lpc,           \* position of main()
    argv,          \* argv[1..argc-1]
    force_terminal,
    target_window,
    dpy,           \* "null" | "open" | "closed"
    win,
    use_shift,
    hint,          \* XClassHint hint: what XGetClassHint returned
    reply,         \* what the server answered to get_active_window
    xlog,          \* requests and waits issued, in order
    lexit          \* return value of main(), NoExit while running

hvars == <<sig, missed, recovered>>
wvars == <<pc, running, hr, lastValue, currentValue, startTime, tick, out,
           flushed, errLines, held, badRelease, calls, failed, exitStatus,
           hvars>>
lvars == <<lpc, argv, force_terminal, target_window, dpy, win,
           use_shift, hint, reply, xlog, lexit>>
vars  == <<wvars, lvars>>

NoExit == -1

\* get_active_window has not been called.
NoReply == [atom |-> FALSE,
            prop |-> [status |-> "BadAlloc", data |-> FALSE, nitems |-> 0,
                      window |-> 0],
            focused |-> 0]

\* No signal has been delivered yet.
NoSignal == [at |-> "none", polls |-> 0, lines |-> 0]

-----------------------------------------------------------------------------
(* windows-text-monitor.c                                                  *)

TIMEOUT_MS       == 30000
POLL_INTERVAL_MS == 2000
MAX_OUTPUT_CHARS == 10240

\* The monitored text changes at most this many times during one run.
MaxChanges == 2

\* A BSTR is NULL or points to a string of UTF-16 code units.
NULL == <<>>
BSTR(s) == <<s>>
Str(b) == b[1]

(***************************************************************************)
(* Strings are kept run-length encoded: a string is a sequence of runs     *)
(* <<u, n>>, n >= 1 copies of the unit u, adjacent runs having different   *)
(* units.  For a wide string u is a code unit, for a byte string u is the  *)
(* byte sequence of one encoded character (or one stray byte).  Two        *)
(* strings are equal iff their run sequences are equal.                    *)
(***************************************************************************)
Rep(u, n) == IF n = 0 THEN <<>> ELSE <<<<u, n>>>>

Cat(a, b) ==
    IF a = <<>> THEN b
    ELSE IF b = <<>> THEN a
    ELSE IF a[Len(a)][1] = b[1][1]
    THEN SubSeq(a, 1, Len(a) - 1) \o <<<<b[1][1], a[Len(a)][2] + b[1][2]>>>>
         \o Tail(b)
    ELSE a \o b

\* the string whose code units are the elements of seq
RECURSIVE Text(_)
Text(seq) == IF seq = <<>> THEN <<>> ELSE Cat(Rep(seq[1], 1), Text(Tail(seq)))

Hello      == Text(<<104, 101, 108, 108, 111>>)
HelloWorld == Text(<<104, 101, 108, 108, 111, 32, 119, 111, 114, 108, 100>>)
\* "a", line feed, "b": a value of two lines
TwoLines   == Text(<<97, 10, 98>>)
\* 10240 x's: the encoding fills the capped buffer exactly.
LongCap    == Rep(120, MAX_OUTPUT_CHARS)
\* 10241 x's: one more than the capped buffer takes.
LongOver   == Rep(120, MAX_OUTPUT_CHARS + 1)
\* 10239 x's then e-acute (2 bytes): the last character straddles the cap.
LongAccent == Cat(Rep(120, MAX_OUTPUT_CHARS - 1), Rep(233, 1))

Values == {Hello, HelloWorld, TwoLines, LongCap, LongOver, LongAccent}

\* UTF-8 bytes of one code unit (CP_UTF8).
Utf8Char(c) ==
    IF c < 128 THEN <<c>>
    ELSE IF c < 2048 THEN <<192 + (c \div 64), 128 + (c % 64)>>
    ELSE <<224 + (c \div 4096), 128 + ((c \div 64) % 64), 128 + (c % 64)>>

\* the UTF-8 encoding of a wide string, without terminator
Utf8Bytes(s) == [i \in 1..Len(s) |-> <<Utf8Char(s[i][1]), s[i][2]>>]

\* number of bytes of a byte string
RECURSIVE ByteLen(_)
ByteLen(b) ==
    IF b = <<>> THEN 0 ELSE Len(b[1][1]) * b[1][2] + ByteLen(Tail(b))

\* the leading characters of b that fit whole in cb bytes
RECURSIVE FitChars(_, _)
FitChars(b, cb) ==
    IF b = <<>> THEN <<>>
    ELSE LET w == Len(b[1][1])
             k == IF b[1][2] * w <= cb THEN b[1][2] ELSE cb \div w
         IN  IF k = b[1][2]
             THEN <<b[1]>> \o FitChars(Tail(b), cb - w * k)
             ELSE Rep(b[1][1], k)

\* WideCharToMultiByte(CP_UTF8, 0, value, -1, buf, cb, NULL, NULL).
\* cb = 0 asks for the size: the byte count including the terminator.
\* Otherwise the call writes the encoding and its terminator when they fit
\* in cb bytes; when they do not, it fails after writing the characters
\* that fit whole and leaves the rest of the buffer as it was.
WideCharToMultiByteSize(value) == ByteLen(Utf8Bytes(value)) + 1
WideCharToMultiByteFits(value, cb) == WideCharToMultiByteSize(value) <= cb
WideCharToMultiByteWritten(value, cb) ==
    IF WideCharToMultiByteFits(value, cb)
    THEN Utf8Bytes(value)
    ELSE FitChars(Utf8Bytes(value), cb)

\* A non-NUL byte that malloc'ed memory may hold.
HeapByte == <<170>>

\* What printf("%s", utf8) prints from a buffer whose byte at index size is
\* NUL: the text written when the call wrote its terminator; otherwise the
\* bytes written, then the uninitialized bytes up to the first NUL.
CString(written, terminated, size) ==
    IF terminated THEN {written}
    ELSE {Cat(written, Rep(HeapByte, k)) : k \in 0..(size - ByteLen(written))}

\* the cap on the buffer size:  if (needed <= 0 || needed > MAX_OUTPUT_CHARS)
Needed(n0) == IF n0 <= 0 \/ n0 > MAX_OUTPUT_CHARS THEN MAX_OUTPUT_CHARS ELSE n0

\* print_output's payload for one value: every text the printf can print.
PayloadsOfValue(value) ==
    LET needed == Needed(WideCharToMultiByteSize(value))
    IN  CString(WideCharToMultiByteWritten(value, needed),
                WideCharToMultiByteFits(value, needed), needed)

Payloads == [v \in Values |-> PayloadsOfValue(v)]

\* print_output(prefix, value): the lines it may write (value is not NULL).
print_output(prefix, value) ==
    {[prefix |-> prefix, payload |-> p] : p \in Payloads[Str(value)]}

\* printf("TOKEN\n")
TokenLine(token) == [prefix |-> token, payload |-> <<>>]

\* wcscmpNonZero as it would be if the emitted payloads were compared
wcscmpNonZero_payloads(a, b) == Payloads[Str(a)] # Payloads[Str(b)]

\* wcscmp(a, b) != 0
wcscmpNonZero(a, b) == Str(a) # Str(b)


Resources == {"com", "automation", "focused", "valuePattern", "bstr"}

Acquire(h, r) == [h EXCEPT ![r] = @ + 1]

\* Release the resources of the sequence rs in order.
RECURSIVE ReleaseSeq(_, _)
ReleaseSeq(h, rs) ==
    IF rs = <<>> THEN h
    ELSE ReleaseSeq([h EXCEPT ![rs[1]] = IF @ > 0 THEN @ - 1 ELSE 0], Tail(rs))

\* Does releasing rs in order release something that is not held?
RECURSIVE BadSeq(_, _)
BadSeq(h, rs) ==
    IF rs = <<>> THEN FALSE
    ELSE \/ h[rs[1]] = 0
         \/ BadSeq([h EXCEPT ![rs[1]] = IF @ > 0 THEN @ - 1 ELSE 0], Tail(rs))

\* Results of IUIAutomationValuePattern_get_CurrentValue.
ReadResults ==
    {[hr |-> "E_FAIL", value |-> NULL], [hr |-> "S_OK", value |-> NULL]}
    \cup {[hr |-> "S_OK", value |-> BSTR(v)] : v \in Values}

SUCCEEDED(h) == h = "S_OK"
FAILED(h)    == h # "S_OK"

\* What Sleep(POLL_INTERVAL_MS) may take beyond the interval.
SleepOvershoot == {0, 14000}

\* The platform calls that are counted.
CallNames == {"GetCurrentPatternAs", "InitialValue", "get_CurrentName",
              "Sleep", "Poll"}

Called(c) == [calls EXCEPT ![c] = @ + 1]

\* return values of main()
NoValueStatus   == 0
DoneStatus      == 0

\* NoElementStatus as it would be if the early exits returned like the
\* NO_VALUE exits
NoElementStatus_asNoValue == NoValueStatus

NoElementStatus == 1

\* ChangedPrefix as it would be if the initial call had been copied
ChangedPrefix_asInitial == "INITIAL_VALUE:"

\* the prefixes handed to print_output
InitialPrefix == "INITIAL_VALUE:"
ChangedPrefix == "CHANGED:"

\* main() after signal() has installed signal_handler and fgets() has
\* consumed the first line of stdin
MonitorInit ==
    /\ pc = "CoInitializeEx"
    /\ running = 1
    /\ hr = "S_OK"
    /\ lastValue = NULL
    /\ currentValue = NULL
    /\ startTime = 0
    /\ tick = 1000
    /\ out = <<>>
    /\ flushed = 0
    /\ errLines = 0
    /\ held = [r \in Resources |-> 0]
    /\ badRelease = FALSE
    /\ calls = [c \in CallNames |-> 0]
    /\ failed = "none"
    /\ exitStatus = NoExit
    /\ sig = NoSignal
    /\ missed = FALSE
    /\ recovered = FALSE
    /\ lpc = "idle"
    /\ argv = <<>>
    /\ force_terminal = 0
    /\ target_window = 0
    /\ dpy = "null"
    /\ win = 0
    /\ use_shift = 0
    /\ hint = [ok |-> FALSE, res_name |-> <<>>, res_class |-> <<>>]
    /\ reply = NoReply
    /\ xlog = <<>>
    /\ lexit = NoExit

\* printf(line); fflush(stdout);
Emit(line) ==
    /\ out' = Append(out, line)
    /\ flushed' = Len(out) + 1

\* the releases rs in order, then return status
Return(h, rs, status) ==
    /\ held' = ReleaseSeq(h, rs)
    /\ badRelease' = (badRelease \/ BadSeq(h, rs))
    /\ exitStatus' = status
    /\ pc' = "done"

\* SIGINT / SIGTERM delivered: signal_handler
signal_handler ==
    /\ pc \notin {"done", "idle"}
    /\ running = 1
    /\ running' = 0
    /\ sig' = [at |-> pc, polls |-> calls["Poll"], lines |-> Len(out)]
    /\ UNCHANGED <<pc, hr, lastValue, currentValue, startTime, tick, out,
                   flushed, errLines, held, badRelease, calls, failed,
                   exitStatus, missed, recovered>>
    /\ UNCHANGED lvars

\* the three early exits: diagnostic on stderr, NO_ELEMENT, releases, return 1
NoElement(call, rs) ==
    /\ hr' = "E_FAIL"
    /\ failed' = call
    /\ errLines' = errLines + 1
    /\ Emit(TokenLine("NO_ELEMENT"))
    /\ Return(held, rs, NoElementStatus)

\* hr = CoInitializeEx(NULL, COINIT_APARTMENTTHREADED)
CoInitializeEx ==
    /\ pc = "CoInitializeEx"
    /\ \E ok \in BOOLEAN :
         IF ok
         THEN /\ hr' = "S_OK"
              /\ held' = Acquire(held, "com")
              /\ pc' = "CoCreateInstance"
              /\ UNCHANGED <<out, flushed, errLines, badRelease, failed,
                             exitStatus>>
         ELSE NoElement("CoInitializeEx", <<>>)
    /\ UNCHANGED <<running, lastValue, currentValue, startTime, tick,
                   calls>>
    /\ UNCHANGED <<hvars, lvars>>

\* hr = CoCreateInstance(..., &automation)
CoCreateInstance ==
    /\ pc = "CoCreateInstance"
    /\ \E ok \in BOOLEAN :
         IF ok
         THEN /\ hr' = "S_OK"
              /\ held' = Acquire(held, "automation")
              /\ pc' = "GetFocusedElement"
              /\ UNCHANGED <<out, flushed, errLines, badRelease, failed,
                             exitStatus>>
         ELSE NoElement("CoCreateInstance", <<"com">>)
    /\ UNCHANGED <<running, lastValue, currentValue, startTime, tick,
                   calls>>
    /\ UNCHANGED <<hvars, lvars>>

\* GetFocusedElement as it would be without the return of its failure
\* branch: NO_ELEMENT is reported and the value pattern is asked for
GetFocusedElement_noReturn ==
    /\ pc = "GetFocusedElement"
    /\ hr' = "E_FAIL"
    /\ failed' = "GetFocusedElement"
    /\ errLines' = errLines + 1
    /\ out' = Append(out, [prefix |-> "NO_ELEMENT", payload |-> <<>>])
    /\ flushed' = Len(out) + 1
    /\ pc' = "GetCurrentPatternAs"
    /\ UNCHANGED <<running, lastValue, currentValue, startTime, tick, held,
                   badRelease, calls, exitStatus>>
    /\ UNCHANGED <<hvars, lvars>>

\* hr = IUIAutomation_GetFocusedElement(automation, &focused)
GetFocusedElement ==
    /\ pc = "GetFocusedElement"
    /\ \E ok \in BOOLEAN :
         IF ok
         THEN /\ hr' = "S_OK"
              /\ held' = Acquire(held, "focused")
              /\ pc' = "GetCurrentPatternAs"
              /\ UNCHANGED <<out, flushed, errLines, badRelease, failed,
                             exitStatus>>
         ELSE NoElement("GetFocusedElement", <<"automation", "com">>)
    /\ UNCHANGED <<running, lastValue, currentValue, startTime, tick,
                   calls>>
    /\ UNCHANGED <<hvars, lvars>>

\* hr = IUIAutomationElement_GetCurrentPatternAs(focused, ..., &valuePattern)
\* and the test SUCCEEDED(hr) && valuePattern
GetCurrentPatternAs ==
    /\ pc = "GetCurrentPatternAs"
    /\ calls' = Called("GetCurrentPatternAs")
    /\ \E ok \in BOOLEAN :
         IF ok
         THEN /\ hr' = "S_OK"
              /\ held' = Acquire(held, "valuePattern")
              /\ failed' = failed
              /\ pc' = "InitialValue"
         ELSE /\ hr' = "E_FAIL"
              /\ held' = held
              /\ failed' = "GetCurrentPatternAs"
              /\ pc' = "CurrentName"
    /\ UNCHANGED <<running, lastValue, currentValue, startTime, tick, out,
                   flushed, errLines, badRelease, exitStatus>>
    /\ UNCHANGED <<hvars, lvars>>

\* hr = IUIAutomationValuePattern_get_CurrentValue(valuePattern, &lastValue)
\* and both branches of SUCCEEDED(hr) && lastValue
InitialValue ==
    /\ pc = "InitialValue"
    /\ calls' = Called("InitialValue")
    /\ \E r \in ReadResults :
         /\ hr' = r.hr
         /\ lastValue' = r.value
         /\ IF SUCCEEDED(r.hr) /\ r.value # NULL
            THEN /\ \E line \in print_output(InitialPrefix, r.value) : Emit(line)
                 /\ held' = Acquire(held, "bstr")
                 /\ pc' = "GetTickCount"
                 /\ UNCHANGED <<badRelease, failed, exitStatus>>
            ELSE /\ failed' = "get_CurrentValue"
                 /\ Emit(TokenLine("NO_VALUE"))
                 /\ Return(held, <<"valuePattern", "focused", "automation", "com">>,
                           NoValueStatus)
    /\ UNCHANGED <<running, currentValue, startTime, tick, errLines>>
    /\ UNCHANGED <<hvars, lvars>>

\* Results of IUIAutomationElement_get_CurrentName: the call fails, or it
\* yields NULL, an empty BSTR or a non-empty BSTR.
NameResults == {"E_FAIL", "null", "empty", "nonempty"}

\* CurrentName as it would be without its return: the loop is entered
CurrentName_noReturn ==
    /\ pc = "CurrentName"
    /\ calls' = [calls EXCEPT !["get_CurrentName"] = @ + 1]
    /\ hr' = "S_OK"
    /\ out' = Append(out, [prefix |-> "NO_VALUE", payload |-> <<>>])
    /\ flushed' = Len(out) + 1
    /\ pc' = "GetTickCount"
    /\ UNCHANGED <<running, lastValue, currentValue, startTime, tick, errLines,
                   held, badRelease, failed, exitStatus>>
    /\ UNCHANGED <<hvars, lvars>>

\* the branch without a Value pattern: get_CurrentName, NO_VALUE, return 0
CurrentName ==
    /\ pc = "CurrentName"
    /\ calls' = Called("get_CurrentName")
    /\ \E name \in NameResults :
         LET got   == IF name \in {"empty", "nonempty"}
                      THEN Acquire(held, "bstr") ELSE held
             freed == IF name = "nonempty"
                      THEN ReleaseSeq(got, <<"bstr">>) ELSE got
         IN  /\ hr' = IF name = "E_FAIL" THEN "E_FAIL" ELSE "S_OK"
             /\ Emit(TokenLine("NO_VALUE"))
             /\ Return(freed, <<"focused", "automation", "com">>, NoValueStatus)
    /\ UNCHANGED <<running, lastValue, currentValue, startTime, tick,
                   errLines, failed>>
    /\ UNCHANGED <<hvars, lvars>>

\* DWORD startTime = GetTickCount();
GetTickCount ==
    /\ pc = "GetTickCount"
    /\ startTime' = tick
    /\ pc' = "while"
    /\ UNCHANGED <<running, hr, lastValue, currentValue, tick, out,
                   flushed, errLines, held, badRelease, calls, failed,
                   exitStatus>>
    /\ UNCHANGED <<hvars, lvars>>

\* TimedOut as it would be if the loop went on at elapsed = TIMEOUT_MS
TimedOut_strict(now, start) == now - start > TIMEOUT_MS

\* has the loop run out of time?  elapsed >= TIMEOUT_MS
TimedOut(now, start) == now - start >= TIMEOUT_MS

\* LoopHead as it would be if the loop tested the time-out alone
LoopHead_ignoresRunning ==
    /\ pc = "while"
    /\ IF TimedOut(tick, startTime)
       THEN pc' = "Cleanup"
       ELSE pc' = "Sleep"
    /\ UNCHANGED <<running, hr, lastValue, currentValue, startTime, tick,
                   out, flushed, errLines, held, badRelease, calls, failed,
                   exitStatus>>
    /\ UNCHANGED <<hvars, lvars>>

\* while (running) { elapsed = GetTickCount() - startTime;
\*                   if (elapsed >= TIMEOUT_MS) break;
LoopHead ==
    /\ pc = "while"
    /\ IF running = 0 \/ TimedOut(tick, startTime)
       THEN pc' = "Cleanup"
       ELSE pc' = "Sleep"
    /\ UNCHANGED <<running, hr, lastValue, currentValue, startTime, tick,
                   out, flushed, errLines, held, badRelease, calls, failed,
                   exitStatus>>
    /\ UNCHANGED <<hvars, lvars>>

\* Sleep(POLL_INTERVAL_MS);
Sleep ==
    /\ pc = "Sleep"
    /\ \E over \in SleepOvershoot : tick' = tick + POLL_INTERVAL_MS + over
    /\ calls' = Called("Sleep")
    /\ pc' = "Poll"
    /\ UNCHANGED <<running, hr, lastValue, currentValue, startTime, out,
                   flushed, errLines, held, badRelease, failed, exitStatus>>
    /\ UNCHANGED <<hvars, lvars>>

\* BSTR currentValue = NULL;
\* hr = IUIAutomationValuePattern_get_CurrentValue(valuePattern, &currentValue);
\* (the text read differs from the baseline at most MaxChanges times a run)
Poll ==
    /\ pc = "Poll"
    /\ \E r \in ReadResults :
         /\ (r.value # NULL /\ r.value # lastValue) => Len(out) <= MaxChanges
         /\ hr' = r.hr
         /\ currentValue' = r.value
         /\ held' = IF r.value # NULL THEN Acquire(held, "bstr") ELSE held
    /\ calls' = Called("Poll")
    /\ pc' = "Compare"
    /\ UNCHANGED <<running, lastValue, startTime, tick, out, flushed,
                   errLines, badRelease, failed, exitStatus>>
    /\ UNCHANGED <<hvars, lvars>>

\* IsChange as it would be if no read were ever taken for a change
IsChange_never(last, current) == FALSE

\* Is the value just read a change to report?
\* lastValue && wcscmp(currentValue, lastValue) != 0
IsChange(last, current) == last # NULL /\ wcscmpNonZero(current, last)

\* NewBaseline as it would be if the comparison stayed on the first value
NewBaseline_keepsFirst(last, current) == last

\* The baseline after a change has been reported:  lastValue = currentValue
NewBaseline(last, current) == current

\* if (FAILED(hr) || !currentValue) continue;  and the comparison
Compare ==
    /\ pc = "Compare"
    /\ IF FAILED(hr) \/ currentValue = NULL
       THEN /\ missed' = TRUE
            /\ recovered' = FALSE
            /\ UNCHANGED <<lastValue, out, flushed, held, badRelease>>
       ELSE IF IsChange(lastValue, currentValue)
       THEN /\ \E line \in print_output(ChangedPrefix, currentValue) : Emit(line)
            /\ held' = ReleaseSeq(held, <<"bstr">>)
            /\ badRelease' = (badRelease \/ BadSeq(held, <<"bstr">>))
            /\ lastValue' = NewBaseline(lastValue, currentValue)
            /\ missed' = FALSE
            /\ recovered' = missed
       ELSE /\ held' = ReleaseSeq(held, <<"bstr">>)
            /\ badRelease' = (badRelease \/ BadSeq(held, <<"bstr">>))
            /\ missed' = FALSE
            /\ recovered' = FALSE
            /\ UNCHANGED <<lastValue, out, flushed>>
    /\ currentValue' = NULL
    /\ pc' = "while"
    /\ UNCHANGED <<running, hr, startTime, tick, errLines, calls, failed,
                   exitStatus, sig>>
    /\ UNCHANGED lvars

\* the cleanup after the loop and return 0
Cleanup ==
    /\ pc = "Cleanup"
    /\ LET rs == (IF lastValue # NULL THEN <<"bstr">> ELSE <<>>)
                 \o (IF held["valuePattern"] > 0 THEN <<"valuePattern">> ELSE <<>>)
                 \o (IF held["focused"] > 0 THEN <<"focused">> ELSE <<>>)
                 \o (IF held["automation"] > 0 THEN <<"automation">> ELSE <<>>)
                 \o <<"com">>
       IN  Return(held, rs, DoneStatus)
    /\ UNCHANGED <<running, hr, lastValue, currentValue, startTime, tick,
                   out, flushed, errLines, calls, failed>>
    /\ UNCHANGED <<hvars, lvars>>

MonitorNext ==
    \/ signal_handler
    \/ CoInitializeEx
    \/ CoCreateInstance
    \/ GetFocusedElement
    \/ GetCurrentPatternAs
    \/ InitialValue
    \/ CurrentName
    \/ GetTickCount
    \/ LoopHead
    \/ Sleep
    \/ Poll
    \/ Compare
    \/ Cleanup

MonitorSpec == MonitorInit /\ [][MonitorNext]_vars

TypeOKMonitor ==
    /\ running \in {0, 1}
    /\ exitStatus \in {NoExit, 0, 1}
    /\ Len(out) <= MaxChanges + 2

-----------------------------------------------------------------------------
(* linux-fast-paste.c                                                      *)
(* C strings are sequences of characters.                                  *)

None        == 0
PointerRoot == 1

\* argv has at most this many words after the program name.
MaxArgs == 3

terminal_classes == <<
    <<"k", "o", "n", "s", "o", "l", "e">>,
    <<"g", "n", "o", "m", "e", "-", "t", "e", "r", "m", "i", "n", "a", "l">>,
    <<"t", "e", "r", "m", "i", "n", "a", "l">>,
    <<"k", "i", "t", "t", "y">>,
    <<"a", "l", "a", "c", "r", "i", "t", "t", "y">>,
    <<"t", "e", "r", "m", "i", "n", "a", "t", "o", "r">>,
    <<"x", "t", "e", "r", "m">>,
    <<"u", "r", "x", "v", "t">>,
    <<"r", "x", "v", "t">>,
    <<"t", "i", "l", "i", "x">>,
    <<"t", "e", "r", "m", "i", "n", "o", "l", "o", "g", "y">>,
    <<"w", "e", "z", "t", "e", "r", "m">>,
    <<"f", "o", "o", "t">>,
    <<"s", "t">>,
    <<"y", "a", "k", "u", "a", "k", "e">>,
    <<"g", "h", "o", "s", "t", "t", "y">>,
    <<"g", "u", "a", "k", "e">>,
    <<"t", "i", "l", "d", "a">>,
    <<"h", "y", "p", "e", "r">>,
    <<"t", "a", "b", "b", "y">>,
    <<"s", "a", "k", "u", "r", "a">>,
    <<"w", "a", "r", "p">>
>>

UpperCase == <<"A", "B", "C", "D", "E", "F", "G", "H", "I", "J", "K", "L", "M",
               "N", "O", "P", "Q", "R", "S", "T", "U", "V", "W", "X", "Y", "Z">>
LowerCase == <<"a", "b", "c", "d", "e", "f", "g", "h", "i", "j", "k", "l", "m",
               "n", "o", "p", "q", "r", "s", "t", "u", "v", "w", "x", "y", "z">>

tolower(c) ==
    IF \E i \in 1..26 : UpperCase[i] = c
    THEN LowerCase[CHOOSE i \in 1..26 : UpperCase[i] = c]
    ELSE c

\* strcasestr as it would be if it were strstr
strcasestr_caseSensitive(haystack, needle) ==
    \E o \in 0..(Len(haystack) - Len(needle)) :
        \A j \in 1..Len(needle) : haystack[o + j] = needle[j]

\* strcasestr(haystack, needle) != NULL
strcasestr(haystack, needle) ==
    \E o \in 0..(Len(haystack) - Len(needle)) :
        \A j \in 1..Len(needle) : tolower(haystack[o + j]) = tolower(needle[j])

\* A char pointer is NULL or points to a C string.
CStr(s) == <<s>>

is_terminal(wm_class) ==
    IF wm_class = NULL THEN 0
    ELSE IF \E i \in 1..Len(terminal_classes) :
                strcasestr(wm_class[1], terminal_classes[i])
         THEN 1 ELSE 0

Digits == <<"0", "1", "2", "3", "4", "5", "6", "7", "8", "9",
            "a", "b", "c", "d", "e", "f">>

\* value of c as a digit of the given base, -1 when it is none
DigitVal(c, base) ==
    LET lc == tolower(c)
    IN  IF \E d \in 1..base : Digits[d] = lc
        THEN (CHOOSE d \in 1..base : Digits[d] = lc) - 1
        ELSE -1

\* the number read from the leading digits of s, continuing from acc
RECURSIVE ReadDigits(_, _, _)
ReadDigits(s, base, acc) ==
    IF s = <<>> \/ DigitVal(s[1], base) < 0 THEN acc
    ELSE ReadDigits(Tail(s), base, acc * base + DigitVal(s[1], base))

\* strtoul as it would be with base 10 in place of base 0
strtoul_base10(s) == ReadDigits(s, 10, 0)

\* strtoul(s, NULL, 0): optional sign, then 0x.. (hex), 0.. (octal) or
\* decimal digits; 0 when there is no digit.  A negated value stands for
\* its two's complement (the words of the model hold none).
strtoul(s) ==
    LET neg  == s # <<>> /\ s[1] = "-"
        body == IF s # <<>> /\ s[1] \in {"-", "+"} THEN Tail(s) ELSE s
        hex  == /\ Len(body) >= 3 /\ body[1] = "0" /\ tolower(body[2]) = "x"
                /\ DigitVal(body[3], 16) >= 0
        v    == IF hex THEN ReadDigits(SubSeq(body, 3, Len(body)), 16, 0)
                ELSE IF body # <<>> /\ body[1] = "0" THEN ReadDigits(body, 8, 0)
                ELSE ReadDigits(body, 10, 0)
    IN  IF neg THEN 0 - v ELSE v

OptTerminal == <<"-", "-", "t", "e", "r", "m", "i", "n", "a", "l">>
OptWindow   == <<"-", "-", "w", "i", "n", "d", "o", "w">>

\* the words a command line of the model is made of
ArgWords == {OptTerminal, OptWindow, <<"7", "7">>, <<"0", "x", "4", "e">>, <<"0">>}

RECURSIVE ArgVectors(_)
ArgVectors(n) ==
    IF n = 0 THEN {<<>>}
    ELSE ArgVectors(n - 1)
         \cup {Append(a, w) : a \in {b \in ArgVectors(n - 1) : Len(b) = n - 1},
                              w \in ArgWords}

\* the argument loop of main(): <<force_terminal, target_window>> after
\* the words from index i on (argv[i] of the source is args[i])
RECURSIVE ParseArgs(_, _, _, _)
ParseArgs(args, i, ft, tw) ==
    IF i > Len(args) THEN <<ft, tw>>
    ELSE IF args[i] = OptTerminal THEN ParseArgs(args, i + 1, 1, tw)
    ELSE IF args[i] = OptWindow /\ i + 1 <= Len(args)
    THEN ParseArgs(args, i + 2, ft, strtoul(args[i + 1]))
    ELSE ParseArgs(args, i + 1, ft, tw)

\* one entry of the log of Xlib calls and waits
Req(call, key, n) == [call |-> call, key |-> key, n |-> n]

\* windows the server may name as active or focused
ServerWindows == {77, 78}

\* Results of XGetWindowProperty(root, _NET_ACTIVE_WINDOW): the request
\* fails; the property is absent (no data); it is there with no item; it
\* holds a window id, possibly None.
PropResults ==
    {[status |-> "BadAlloc", data |-> FALSE, nitems |-> 0, window |-> None],
     [status |-> "Success",  data |-> FALSE, nitems |-> 0, window |-> None],
     [status |-> "Success",  data |-> TRUE,  nitems |-> 0, window |-> None]}
    \cup {[status |-> "Success", data |-> TRUE, nitems |-> 1, window |-> w] :
            w \in ServerWindows \cup {None}}

\* Results of XGetInputFocus.
FocusResults == ServerWindows \cup {None, PointerRoot}

\* Results of XGetClassHint: 0, or res_name and res_class.
ClassHints ==
    {[ok |-> FALSE, res_name |-> NULL, res_class |-> NULL]}
    \cup {[ok |-> TRUE, res_name |-> CStr(h[1]), res_class |-> CStr(h[2])] :
            h \in {<<<<"x", "t", "e", "r", "m">>, <<"X", "T", "e", "r", "m">>>>,
                   <<<<"N", "a", "v", "i", "g", "a", "t", "o", "r">>, <<"f", "i", "r", "e", "f", "o", "x">>>>,
                   <<<<"k", "i", "t", "t", "y">>, <<"S", "c", "r", "a", "t", "c", "h", "p", "a", "d">>>>,
                   <<<<"m", "a", "i", "n">>, <<"G", "n", "o", "m", "e", "-", "T", "e", "r", "m", "i", "n", "a", "l">>>>}}

PasteInit ==
    /\ lpc = "args"
    /\ argv \in ArgVectors(MaxArgs)
    /\ force_terminal = 0
    /\ target_window = None
    /\ dpy = "null"
    /\ win = None
    /\ use_shift = 0
    /\ hint = [ok |-> FALSE, res_name |-> <<>>, res_class |-> <<>>]
    /\ reply = NoReply
    /\ xlog = <<>>
    /\ lexit = NoExit
    /\ pc = "idle"
    /\ running = 1
    /\ hr = "S_OK"
    /\ lastValue = NULL
    /\ currentValue = NULL
    /\ startTime = 0
    /\ tick = 0
    /\ out = <<>>
    /\ flushed = 0
    /\ errLines = 0
    /\ held = [r \in Resources |-> 0]
    /\ badRelease = FALSE
    /\ calls = [c \in CallNames |-> 0]
    /\ failed = "none"
    /\ exitStatus = NoExit
    /\ sig = NoSignal
    /\ missed = FALSE
    /\ recovered = FALSE

\* for (int i = 1; i < argc; i++) ...
ArgLoop ==
    /\ lpc = "args"
    /\ force_terminal' = ParseArgs(argv, 1, 0, None)[1]
    /\ target_window' = ParseArgs(argv, 1, 0, None)[2]
    /\ lpc' = "XOpenDisplay"
    /\ UNCHANGED <<argv, hint, reply, dpy, win, use_shift, xlog, lexit>>
    /\ UNCHANGED wvars

\* exit status when the display cannot be opened
NoDisplayStatus == 1

\* NoXTestStatus as it would be if both failures returned the same status
NoXTestStatus_asNoDisplay == NoDisplayStatus

\* exit status when XTest is missing
NoXTestStatus   == 2

\* Display *dpy = XOpenDisplay(NULL); if (!dpy) return 1;
XOpenDisplay ==
    /\ lpc = "XOpenDisplay"
    /\ \E ok \in BOOLEAN :
         IF ok
         THEN /\ dpy' = "open"
              /\ xlog' = Append(xlog, Req("XOpenDisplay", "", 0))
              /\ lpc' = "XTestQueryExtension"
              /\ lexit' = lexit
         ELSE /\ dpy' = "null"
              /\ xlog' = xlog
              /\ lpc' = "done"
              /\ lexit' = NoDisplayStatus
    /\ UNCHANGED <<argv, hint, reply, force_terminal, target_window, win, use_shift>>
    /\ UNCHANGED wvars

\* if (!XTestQueryExtension(...)) { XCloseDisplay(dpy); return 2; }
XTestQueryExtension ==
    /\ lpc = "XTestQueryExtension"
    /\ \E ok \in BOOLEAN :
         IF ok
         THEN /\ xlog' = Append(xlog, Req("XTestQueryExtension", "", 1))
              /\ lpc' = IF target_window # None
                        THEN "activate_window" ELSE "get_window"
              /\ UNCHANGED <<dpy, lexit>>
         ELSE /\ xlog' = xlog \o <<Req("XTestQueryExtension", "", 0),
                                   Req("XCloseDisplay", "", 0)>>
              /\ dpy' = "closed"
              /\ lpc' = "done"
              /\ lexit' = NoXTestStatus
    /\ UNCHANGED <<argv, hint, reply, force_terminal, target_window, win, use_shift>>
    /\ UNCHANGED wvars

\* ClientMessage as it would be without the flush and the settle wait
ClientMessage_noFlush(w) ==
    <<[call |-> "XSendEvent", key |-> "_NET_ACTIVE_WINDOW", n |-> w]>>

\* activate_window, first half: the _NET_ACTIVE_WINDOW client message to
\* the root window, XFlush, usleep(50000)
ClientMessage(w) ==
    <<Req("XSendEvent", "_NET_ACTIVE_WINDOW", w),
      Req("XFlush", "", 0),
      Req("usleep", "", 50000)>>

\* activate_window, second half: XSetInputFocus, XFlush, usleep(20000)
SetFocus(w) ==
    <<Req("XSetInputFocus", "", w),
      Req("XFlush", "", 0),
      Req("usleep", "", 20000)>>

\* if (target_window != None) activate_window(dpy, target_window);
activate_window ==
    /\ lpc = "activate_window"
    /\ xlog' = xlog \o ClientMessage(target_window)
    /\ lpc' = "XSetInputFocus"
    /\ UNCHANGED <<argv, hint, reply, force_terminal, target_window, dpy, win, use_shift,
                   lexit>>
    /\ UNCHANGED wvars

XSetInputFocus ==
    /\ lpc = "XSetInputFocus"
    /\ xlog' = xlog \o SetFocus(target_window)
    /\ lpc' = "get_window"
    /\ UNCHANGED <<argv, hint, reply, force_terminal, target_window, dpy, win, use_shift,
                   lexit>>
    /\ UNCHANGED wvars

\* get_active_window as it would be if the input focus were asked first
get_active_window_focusFirst(atom, prop, focused) ==
    [window |-> focused, calls |-> <<Req("XGetInputFocus", "", focused)>>]

\* get_active_window(dpy): the window returned and the calls made, given
\* whether the atom exists, the property read and the input focus
get_active_window(atom, prop, focused) ==
    LET lookup == <<Req("XInternAtom", "_NET_ACTIVE_WINDOW", IF atom THEN 1 ELSE 0)>>
        read   == IF atom
                  THEN <<Req("XGetWindowProperty", "_NET_ACTIVE_WINDOW",
                             IF prop.status = "Success" /\ prop.data
                             THEN (IF prop.nitems > 0 THEN prop.window ELSE None)
                             ELSE None)>>
                  ELSE <<>>
        free   == IF atom /\ prop.status = "Success" /\ prop.data
                  THEN <<Req("XFree", "data", 0)>> ELSE <<>>
        found  == /\ atom /\ prop.status = "Success" /\ prop.data
                  /\ (IF prop.nitems > 0 THEN prop.window ELSE None) # None
    IN  IF found
        THEN [window |-> prop.window, calls |-> lookup \o read \o free]
        ELSE [window |-> focused,
              calls  |-> lookup \o read \o free
                         \o <<Req("XGetInputFocus", "", focused)>>]

\* Window win = (target_window != None) ? target_window : get_active_window(dpy);
GetWindow ==
    /\ lpc = "get_window"
    /\ IF target_window # None
       THEN /\ win' = target_window
            /\ xlog' = xlog
            /\ reply' = reply
       ELSE \E atom \in BOOLEAN, prop \in PropResults, focused \in FocusResults :
              LET r == get_active_window(atom, prop, focused)
              IN  /\ win' = r.window
                  /\ xlog' = xlog \o r.calls
                  /\ reply' = [atom |-> atom, prop |-> prop, focused |-> focused]
    /\ lpc' = "use_shift"
    /\ UNCHANGED <<argv, hint, force_terminal, target_window, dpy, use_shift, lexit>>
    /\ UNCHANGED wvars

\* NeedsClassHint as it would be without the test of use_shift
NeedsClassHint_ignoresForce(forced, w) == w # None

\* NeedsClassHint as it would be without the test of win
NeedsClassHint_ignoresNone(forced, w) == forced = 0

\* must the class hint be read?  if (!use_shift && win != None)
NeedsClassHint(forced, w) == forced = 0 /\ w # None

\* use_shift = is_terminal(hint.res_class) || is_terminal(hint.res_name)
ShiftOfHint(h) ==
    IF is_terminal(h.res_class) # 0 \/ is_terminal(h.res_name) # 0
    THEN 1 ELSE 0

\* int use_shift = force_terminal; and the class-hint block
Classify ==
    /\ lpc = "use_shift"
    /\ IF NeedsClassHint(force_terminal, win)
       THEN \E h \in ClassHints :
              /\ hint' = h
              /\ IF h.ok
                 THEN /\ use_shift' = ShiftOfHint(h)
                      /\ xlog' = xlog \o <<Req("XGetClassHint", "", win),
                                           Req("XFree", "res_name", 0),
                                           Req("XFree", "res_class", 0)>>
                 ELSE /\ use_shift' = force_terminal
                      /\ xlog' = Append(xlog, Req("XGetClassHint", "", win))
       ELSE /\ use_shift' = force_terminal
            /\ xlog' = xlog
            /\ hint' = hint
    /\ lpc' = "press_modifiers"
    /\ UNCHANGED <<argv, reply, force_terminal, target_window, dpy, win, lexit>>
    /\ UNCHANGED wvars

\* XTestFakeKeyEvent(dpy, XKeysymToKeycode(dpy, keysym), press, CurrentTime)
KeyEvent(keysym, press) == Req("XTestFakeKeyEvent", keysym, IF press THEN 1 ELSE 0)

\* the events of lines 120-123
PressModifiers(shift) ==
    <<KeyEvent("Control_L", TRUE)>>
    \o (IF shift # 0 THEN <<KeyEvent("Shift_L", TRUE)>> ELSE <<>>)
    \o <<Req("usleep", "", 8000)>>

\* ReleaseModifiers as it would be with the two releases swapped
ReleaseModifiers_ctrlFirst(shift) ==
    <<[call |-> "usleep", key |-> "", n |-> 8000],
      [call |-> "XTestFakeKeyEvent", key |-> "Control_L", n |-> 0]>>
    \o (IF shift # 0
        THEN <<[call |-> "XTestFakeKeyEvent", key |-> "Shift_L", n |-> 0]>>
        ELSE <<>>)

\* the events of lines 129-132
ReleaseModifiers(shift) ==
    <<Req("usleep", "", 8000)>>
    \o (IF shift # 0 THEN <<KeyEvent("Shift_L", FALSE)>> ELSE <<>>)
    \o <<KeyEvent("Control_L", FALSE)>>

ModifiersDown ==
    /\ lpc = "press_modifiers"
    /\ xlog' = xlog \o PressModifiers(use_shift)
    /\ lpc' = "press_v"
    /\ UNCHANGED <<argv, hint, reply, force_terminal, target_window, dpy, win, use_shift,
                   lexit>>
    /\ UNCHANGED wvars

VDown ==
    /\ lpc = "press_v"
    /\ xlog' = xlog \o <<KeyEvent("v", TRUE), Req("usleep", "", 8000)>>
    /\ lpc' = "release_v"
    /\ UNCHANGED <<argv, hint, reply, force_terminal, target_window, dpy, win, use_shift,
                   lexit>>
    /\ UNCHANGED wvars

VUp ==
    /\ lpc = "release_v"
    /\ xlog' = Append(xlog, KeyEvent("v", FALSE))
    /\ lpc' = "release_modifiers"
    /\ UNCHANGED <<argv, hint, reply, force_terminal, target_window, dpy, win, use_shift,
                   lexit>>
    /\ UNCHANGED wvars

ModifiersUp ==
    /\ lpc = "release_modifiers"
    /\ xlog' = xlog \o ReleaseModifiers(use_shift)
    /\ lpc' = "XFlush"
    /\ UNCHANGED <<argv, hint, reply, force_terminal, target_window, dpy, win, use_shift,
                   lexit>>
    /\ UNCHANGED wvars

\* XFlush(dpy); usleep(20000);
FlushAndWait ==
    /\ lpc = "XFlush"
    /\ xlog' = xlog \o <<Req("XFlush", "", 0), Req("usleep", "", 20000)>>
    /\ lpc' = "XCloseDisplay"
    /\ UNCHANGED <<argv, hint, reply, force_terminal, target_window, dpy, win, use_shift,
                   lexit>>
    /\ UNCHANGED wvars

\* XCloseDisplay(dpy); return 0;
CloseAndReturn ==
    /\ lpc = "XCloseDisplay"
    /\ xlog' = Append(xlog, Req("XCloseDisplay", "", 0))
    /\ dpy' = "closed"
    /\ lexit' = 0
    /\ lpc' = "done"
    /\ UNCHANGED <<argv, hint, reply, force_terminal, target_window, win, use_shift>>
    /\ UNCHANGED wvars

PasteNext ==
    \/ ArgLoop
    \/ XOpenDisplay
    \/ XTestQueryExtension
    \/ activate_window
    \/ XSetInputFocus
    \/ GetWindow
    \/ Classify
    \/ ModifiersDown
    \/ VDown
    \/ VUp
    \/ ModifiersUp
    \/ FlushAndWait
    \/ CloseAndReturn

PasteSpec == PasteInit /\ [][PasteNext]_vars

TypeOKPaste ==
    /\ force_terminal \in {0, 1}
    /\ use_shift \in {0, 1}
    /\ lexit \in {NoExit, 0, 1, 2}
    /\ dpy \in {"null", "open", "closed"}


-----------------------------------------------------------------------------
(* Properties of the monitor (MonitorSpec)                                 *)

\* the step that handles a value read successfully inside the loop
ComparesRead ==
    pc = "Compare" /\ pc' = "while" /\ SUCCEEDED(hr) /\ currentValue # NULL

\* the step appends exactly one CHANGED line rendering value v
AppendsChanged(v) ==
    /\ Len(out') = Len(out) + 1
    /\ SubSeq(out', 1, Len(out)) = out
    /\ out'[Len(out')].prefix = "CHANGED:"
    /\ out'[Len(out')].payload \in Payloads[Str(v)]

\* C1 (as amended): the baseline is the full value most recently reported
\* by an INITIAL_VALUE or CHANGED line (that line renders it).  A successful
\* read equal to the baseline emits nothing and keeps the baseline; one that
\* differs appends exactly one CHANGED line rendering the new value, which
\* becomes the baseline of all later comparisons.
C1_ChangeAgainstBaseline ==
    /\ [](lastValue # NULL =>
            /\ Len(out) >= 1
            /\ out[Len(out)].prefix \in {"INITIAL_VALUE:", "CHANGED:"}
            /\ out[Len(out)].payload \in Payloads[Str(lastValue)])
    /\ [][ComparesRead =>
            IF currentValue = lastValue
            THEN out' = out /\ lastValue' = lastValue
            ELSE AppendsChanged(currentValue) /\ lastValue' = currentValue]_vars

\* reads hello, hello, hello world: INITIAL_VALUE:hello, CHANGED:hello world
C1_Witness ==
    /\ pc = "while"
    /\ calls["Poll"] = 2
    /\ out = <<[prefix |-> "INITIAL_VALUE:", payload |-> Utf8Bytes(Hello)],
               [prefix |-> "CHANGED:", payload |-> Utf8Bytes(HelloWorld)]>>
    /\ lastValue = BSTR(HelloWorld)

\* C1 as stated: the baseline is the payload of the most recently emitted
\* line.  A successful read equal to that payload emits nothing; one that
\* differs from it appends exactly one CHANGED line.
C1_PayloadIsBaseline ==
    [][ComparesRead =>
         IF Utf8Bytes(Str(currentValue)) = out[Len(out)].payload
         THEN out' = out
         ELSE AppendsChanged(currentValue)]_vars

\* C2: once the initial read has succeeded the first line is the
\* INITIAL_VALUE line; no other line is one; a CHANGED line is never the
\* first line and is only there after an INITIAL_VALUE line.
C2_InitialValueFirst ==
    /\ lastValue # NULL => Len(out) >= 1 /\ out[1].prefix = "INITIAL_VALUE:"
    /\ \A i \in 1..Len(out) :
         /\ out[i].prefix = "INITIAL_VALUE:" => i = 1
         /\ out[i].prefix = "CHANGED:" => i > 1 /\ out[1].prefix = "INITIAL_VALUE:"

C2_Witness ==
    /\ pc = "done"
    /\ Len(out) = 3
    /\ out[1].prefix = "INITIAL_VALUE:"
    /\ out[2].prefix = "CHANGED:"
    /\ out[3].prefix = "CHANGED:"

ElementFailures == {"CoInitializeEx", "CoCreateInstance", "GetFocusedElement"}
ValueFailures   == {"GetCurrentPatternAs", "get_CurrentValue"}

\* C3 (as amended): the process exits with status 1 exactly when COM
\* initialization, the creation of the automation object or the focused
\* element fails; it exits with status 0 in every other run, also when the
\* value cannot be acquired (no value pattern, initial read without value).
C3_ExitStatus ==
    pc = "done" => exitStatus = (IF failed \in ElementFailures THEN 1 ELSE 0)

C3_Witness ==
    pc = "done" /\ failed = "get_CurrentValue" /\ exitStatus = 0

\* C3 as stated: status 1 whenever initialization, element acquisition or
\* value acquisition fails before the loop, status 0 in every other run.
C3_OneOnAnyFailure ==
    pc = "done" => exitStatus = (IF failed # "none" THEN 1 ELSE 0)

\* C4: when the element has no value pattern or the initial read yields no
\* value, NO_VALUE is the only line, the status is 0, and there is neither
\* a sleep nor a poll: the loop is never entered.
C4_NoValueStopsBeforeLoop ==
    failed \in ValueFailures =>
        /\ pc \in {"CurrentName", "done"}
        /\ calls["Sleep"] = 0 /\ calls["Poll"] = 0
        /\ pc = "done" =>
             /\ out = <<[prefix |-> "NO_VALUE", payload |-> <<>>]>>
             /\ flushed = 1
             /\ exitStatus = 0

C4_Witness ==
    /\ pc = "done"
    /\ failed = "GetCurrentPatternAs"
    /\ calls["get_CurrentName"] = 1
    /\ Len(out) = 1

\* C5: when COM, the automation object or the focused element cannot be
\* obtained, NO_ELEMENT is the only line, the process has ended with a
\* non-zero status, and neither the value pattern nor any value was asked.
C5_NoElementHardStop ==
    failed \in ElementFailures =>
        /\ pc = "done"
        /\ out = <<[prefix |-> "NO_ELEMENT", payload |-> <<>>]>>
        /\ flushed = 1
        /\ exitStatus \notin {0, NoExit}
        /\ \A c \in CallNames : calls[c] = 0

C5_Witness ==
    pc = "done" /\ failed = "GetFocusedElement" /\ held["automation"] = 0

-----------------------------------------------------------------------------
(* Properties of the paste helper (PasteSpec)                              *)

Has(call) == \E i \in 1..Len(xlog) : xlog[i].call = call

KeyEvents == SelectSeq(xlog, LAMBDA e : e.call = "XTestFakeKeyEvent")

IsPrefix(a, b) == Len(a) <= Len(b) /\ SubSeq(b, 1, Len(a)) = a

Down(k) == [call |-> "XTestFakeKeyEvent", key |-> k, n |-> 1]
Up(k)   == [call |-> "XTestFakeKeyEvent", key |-> k, n |-> 0]

\* the paste chord
Chord(shift) ==
    IF shift
    THEN <<Down("Control_L"), Down("Shift_L"), Down("v"),
           Up("v"), Up("Shift_L"), Up("Control_L")>>
    ELSE <<Down("Control_L"), Down("v"), Up("v"), Up("Control_L")>>

XTestMissing ==
    \E i \in 1..Len(xlog) : xlog[i].call = "XTestQueryExtension" /\ xlog[i].n = 0

\* C6: the display is opened before the extension is asked for; a display
\* that cannot be opened gives status 1, a display without XTest status 2,
\* and then neither an activation nor a key event has been issued; every
\* other run ends with status 0.
C6_ExitStatus ==
    /\ \A i \in 1..Len(xlog) :
         xlog[i].call = "XTestQueryExtension" =>
            i = 2 /\ xlog[1].call = "XOpenDisplay" /\ dpy # "null"
    /\ lpc = "done" =>
         /\ lexit = (IF dpy = "null" THEN 1 ELSE IF XTestMissing THEN 2 ELSE 0)
         /\ lexit \in {1, 2} =>
              /\ ~Has("XSendEvent") /\ ~Has("XSetInputFocus")
              /\ ~Has("XTestFakeKeyEvent")

C6_Witness ==
    lpc = "done" /\ lexit = 2 /\ dpy = "closed" /\ target_window # None

\* C7: the key events are issued in the order of the chord chosen by
\* use_shift; a finished synthesis has issued the whole chord, then the
\* flush, the wait and the close of the display.
C7_ChordOrder ==
    /\ IsPrefix(KeyEvents, Chord(use_shift = 1))
    /\ (lpc = "done" /\ lexit = 0) =>
         /\ KeyEvents = Chord(use_shift = 1)
         /\ Len(xlog) >= 4
         /\ xlog[Len(xlog) - 3] = Up("Control_L")
         /\ xlog[Len(xlog) - 2].call = "XFlush"
         /\ xlog[Len(xlog) - 1].call = "usleep"
         /\ xlog[Len(xlog)].call = "XCloseDisplay"
         /\ dpy = "closed"
    /\ dpy = "closed" =>
         \A k \in {"Control_L", "Shift_L", "v"} :
            Len(SelectSeq(KeyEvents, LAMBDA e : e = Down(k)))
              = Len(SelectSeq(KeyEvents, LAMBDA e : e = Up(k)))

C7_Witness ==
    lpc = "done" /\ lexit = 0 /\ use_shift = 1 /\ Len(KeyEvents) = 6

\* --terminal stands at a position where it is read as an option
TerminalGiven ==
    \E i \in 1..Len(argv) :
        argv[i] = OptTerminal /\ (i = 1 \/ argv[i - 1] # OptWindow)

AfterClassify ==
    lpc \in {"press_modifiers", "press_v", "release_v", "release_modifiers",
             "XFlush", "XCloseDisplay"} \/ (lpc = "done" /\ lexit = 0)

\* C8: with --terminal, use_shift is 1 once the classification step is
\* over, whatever the target, and the class hint is never read.
C8_TerminalOverride ==
    TerminalGiven =>
        /\ AfterClassify => use_shift = 1
        /\ ~Has("XGetClassHint")

C8_Witness ==
    /\ TerminalGiven
    /\ lpc = "done" /\ lexit = 0
    /\ win = None
    /\ use_shift = 1

NoOverride == \A i \in 1..Len(argv) : argv[i] \notin {OptTerminal, OptWindow}

\* the input-focus fallback has been used and named no window
Unresolved ==
    \E i \in 1..Len(xlog) : xlog[i].call = "XGetInputFocus" /\ xlog[i].n = None

\* C9: without --window and --terminal, when neither query names a window
\* the target is None, use_shift stays 0, no class hint is read, and the
\* finished run has issued the plain chord and returned 0.
C9_UnresolvedTargetStillPastes ==
    (NoOverride /\ Unresolved) =>
        /\ win = None
        /\ use_shift = 0
        /\ ~Has("XGetClassHint")
        /\ lexit \in {NoExit, 0}
        /\ lpc = "done" => lexit = 0 /\ KeyEvents = Chord(FALSE)

C9_Witness ==
    NoOverride /\ Unresolved /\ lpc = "done" /\ Len(KeyEvents) = 4

\* the activation of window w
Activation(w) ==
    <<[call |-> "XSendEvent", key |-> "_NET_ACTIVE_WINDOW", n |-> w],
      [call |-> "XFlush", key |-> "", n |-> 0],
      [call |-> "usleep", key |-> "", n |-> 50000],
      [call |-> "XSetInputFocus", key |-> "", n |-> w],
      [call |-> "XFlush", key |-> "", n |-> 0],
      [call |-> "usleep", key |-> "", n |-> 20000]>>

Numeral77 == <<"7", "7">>
Numeral78 == <<"0", "x", "4", "e">>
Numeral0  == <<"0">>
NumeralValue(w) ==
    IF w = Numeral77 THEN 77 ELSE IF w = Numeral78 THEN 78 ELSE 0

\* the command line holds --window once, followed by the numeral of id
WindowGiven(id) ==
    \E i \in 1..(Len(argv) - 1) :
        /\ argv[i] = OptWindow
        /\ \A j \in 1..Len(argv) : argv[j] = OptWindow => j = i
        /\ argv[i + 1] \in {Numeral77, Numeral78, Numeral0}
        /\ NumeralValue(argv[i + 1]) = id

WindowNotGiven == \A i \in 1..Len(argv) : argv[i] # OptWindow

\* the target has been determined (line 104 is past)
TargetKnown == lpc = "use_shift" \/ AfterClassify

ConsultsServer ==
    Has("XInternAtom") \/ Has("XGetWindowProperty") \/ Has("XGetInputFocus")

\* the target is the given id, taken without asking the server, and the
\* activation has been performed on it
UsesVerbatim(id) ==
    TargetKnown =>
        /\ win = id
        /\ ~ConsultsServer
        /\ Len(xlog) >= 8
        /\ SubSeq(xlog, 3, 8) = Activation(id)

\* C11 (as amended): for every non-zero window id passed as --window <id>
\* the target is exactly that id, the server is not asked for the active
\* window, and the activation is performed on it; without --window no
\* activation request is ever issued.
C11_ExplicitTarget ==
    /\ \A id \in {77, 78} : WindowGiven(id) => UsesVerbatim(id)
    /\ WindowNotGiven => ~Has("XSendEvent") /\ ~Has("XSetInputFocus")

C11_Witness ==
    /\ WindowGiven(78)
    /\ lpc = "done" /\ lexit = 0
    /\ win = 78
    /\ Has("XGetClassHint")

\* C11 as stated: the same for every unsigned integer id, 0 included.
C11_EveryIdVerbatim ==
    /\ \A id \in {0, 77, 78} : WindowGiven(id) => UsesVerbatim(id)
    /\ WindowNotGiven => ~Has("XSendEvent") /\ ~Has("XSetInputFocus")

\* name with its upper-case letters replaced by the lower-case ones
Folded(name) ==
    [i \in 1..Len(name) |->
        IF \E k \in 1..26 : UpperCase[k] = name[i]
        THEN LowerCase[CHOOSE k \in 1..26 : UpperCase[k] = name[i]]
        ELSE name[i]]

\* name contains an entry of the terminal-class list, whatever the case
NamesTerminal(name) ==
    LET folded == Folded(name)
    IN  \E t \in 1..Len(terminal_classes) :
          LET entry == Folded(terminal_classes[t])
          IN  \E i \in 1..Len(name) :
                /\ i + Len(entry) - 1 <= Len(name)
                /\ SubSeq(folded, i, i + Len(entry) - 1) = entry

\* the names a class hint of the model can hold, and which name a terminal
HintNames ==
    {h.res_name[1] : h \in {g \in ClassHints : g.ok}}
    \cup {h.res_class[1] : h \in {g \in ClassHints : g.ok}}
TerminalNames == {name \in HintNames : NamesTerminal(name)}

TerminalNotGiven == \A i \in 1..Len(argv) : argv[i] # OptTerminal

\* C12: without --terminal, once the class hint of the target has been
\* read, use_shift is 1 exactly when the class name or the instance name
\* contains an entry of the terminal-class list, case-insensitively.
C12_ClassificationTable ==
    (TerminalNotGiven /\ AfterClassify /\ hint.ok) =>
        /\ win # None
        /\ use_shift = 1 <=>
             (hint.res_class[1] \in TerminalNames \/ hint.res_name[1] \in TerminalNames)

\* a class name that matches only when the case is ignored
C12_Witness ==
    /\ TerminalNotGiven
    /\ lpc = "done"
    /\ hint.ok
    /\ hint.res_class = <<<<"G", "n", "o", "m", "e", "-", "T", "e", "r", "m",
                            "i", "n", "a", "l">>>>
    /\ use_shift = 1

\* Every call main() makes returns, so main() takes its next step; the
\* signal is under no such obligation.
MonitorSteps ==
    \/ CoInitializeEx \/ CoCreateInstance \/ GetFocusedElement
    \/ GetCurrentPatternAs \/ InitialValue \/ CurrentName \/ GetTickCount
    \/ LoopHead \/ Sleep \/ Poll \/ Compare \/ Cleanup
FairMonitorSpec == MonitorSpec /\ WF_vars(MonitorSteps)

-----------------------------------------------------------------------------
(* Cancellation, time-out and output of the monitor                        *)

LoopPositions == {"while", "Sleep", "Poll", "Compare"}

\* the signal arrived while main() was in the poll loop
SignalInLoop == sig.at \in LoopPositions

AllReleased == (\A r \in Resources : held[r] = 0) /\ ~badRelease

\* C13: a signal that arrives in the poll loop lets the step in progress
\* finish: a sleep or read under way is completed, at most one value is
\* read and at most one line (a CHANGED line) written after the signal,
\* and main() then returns 0 with everything released.
C13_CooperativeCancel ==
    SignalInLoop =>
        /\ calls["Poll"] <= sig.polls + 1
        /\ Len(out) <= sig.lines + 1
        /\ Len(out) = sig.lines + 1 =>
              /\ calls["Poll"] = sig.polls + (IF sig.at = "Compare" THEN 0 ELSE 1)
              /\ out[Len(out)].prefix = "CHANGED:"
        /\ sig.at = "while" => calls["Poll"] = sig.polls
        /\ sig.at = "Compare" => calls["Poll"] = sig.polls
        /\ pc = "done" =>
              /\ exitStatus = 0
              /\ AllReleased
              /\ sig.at \in {"Sleep", "Poll"} => calls["Poll"] = sig.polls + 1

\* the signal arrived during the sleep; one more read reported a change
C13_Witness ==
    /\ sig.at = "Sleep"
    /\ pc = "done"
    /\ calls["Poll"] = sig.polls + 1
    /\ Len(out) = sig.lines + 1
    /\ exitStatus = 0

\* C14: when every call returns, main() reaches its return whether or not
\* a signal arrives; the loop body is entered only while fewer than 30000
\* ms have elapsed, the value is polled at most 15 times, and a run that
\* no signal ended leaves the loop with 30000 ms or more elapsed and
\* returns 0.
C14_TimeOut ==
    /\ [](/\ calls["Poll"] <= 15
          /\ calls["Sleep"] <= 15
          /\ pc = "Sleep" => tick - startTime < 30000
          /\ (pc = "done" /\ calls["Sleep"] >= 1) => exitStatus = 0
          /\ (pc = "done" /\ calls["Sleep"] >= 1 /\ sig = NoSignal) =>
                tick - startTime >= 30000)
    /\ <>(pc = "done")

\* fifteen polls, no signal, and the loop left on the time-out
C14_Witness ==
    /\ pc = "done"
    /\ sig = NoSignal
    /\ calls["Poll"] = 15
    /\ tick - startTime = 30000
    /\ exitStatus = 0

\* line feeds among the bytes of a byte string
RECURSIVE NewlinesIn(_)
NewlinesIn(b) ==
    IF b = <<>> THEN 0
    ELSE (IF b[1][1] = <<10>> THEN b[1][2] ELSE 0) + NewlinesIn(Tail(b))

\* the lines of stdout that printf("%s%s\n", prefix, utf8) makes up
StdoutLines(line) == NewlinesIn(line.payload) + 1

\* TOKEN or TOKEN:payload with a token of the closed set
WellFramed(line) ==
    \/ line.prefix \in {"NO_ELEMENT", "NO_VALUE"} /\ line.payload = <<>>
    \/ line.prefix \in {"INITIAL_VALUE:", "CHANGED:"}

\* C15: every event is written as exactly one newline-terminated line
\* TOKEN or TOKEN:payload, whatever the text of the control, and is
\* flushed before main() sleeps, reads again or returns.
C15_OneLinePerEvent ==
    /\ \A i \in 1..Len(out) : WellFramed(out[i]) /\ StdoutLines(out[i]) = 1
    /\ flushed = Len(out)

-----------------------------------------------------------------------------
(* Resources of both programs                                              *)

\* how often the paste helper has issued call on key
Issued(call, key) ==
    Cardinality({i \in 1..Len(xlog) : xlog[i].call = call /\ xlog[i].key = key})

\* The monitor: no release of something not held, no reference held
\* twice (two strings at most: baseline and the value just read), what the
\* loop works on is held while it runs, and nothing is held at the return.
MonitorReleasedOnce ==
    /\ ~badRelease
    /\ \A r \in Resources : held[r] <= (IF r = "bstr" THEN 2 ELSE 1)
    /\ pc \in LoopPositions =>
          /\ \A r \in Resources \ {"bstr"} : held[r] = 1
          /\ lastValue # NULL
          /\ held["bstr"] = (IF currentValue # NULL THEN 2 ELSE 1)
    /\ pc = "done" => \A r \in Resources : held[r] = 0

\* The paste helper: an opened display is closed once, as the last call
\* of the run; the two strings of a class hint are freed once each, and
\* only when XGetClassHint returned them; property data is freed at most
\* once, straight after the read that returned it.
PasteReleasedOnce ==
    /\ Issued("XCloseDisplay", "") <= Issued("XOpenDisplay", "")
    /\ \A i \in 1..Len(xlog) : xlog[i].call = "XCloseDisplay" => i = Len(xlog)
    /\ lpc = "done" => Issued("XCloseDisplay", "") = Issued("XOpenDisplay", "")
    /\ Issued("XFree", "res_name") = (IF hint.ok THEN 1 ELSE 0)
    /\ Issued("XFree", "res_class") = (IF hint.ok THEN 1 ELSE 0)
    /\ Issued("XFree", "data") <= 1
    /\ \A i \in 1..Len(xlog) :
          (xlog[i].call = "XFree" /\ xlog[i].key = "data") =>
              i > 1 /\ xlog[i - 1].call = "XGetWindowProperty"

\* C16: in both programs every resource acquired is released exactly once
\* before the return, on every path; nothing is released twice or without
\* having been acquired, and nothing is used after its release.
C16_ReleasedOnce == MonitorReleasedOnce /\ PasteReleasedOnce

-----------------------------------------------------------------------------
(* Failed reads, the fallback of the resolver, the cap                     *)

\* the step that deals with the value just read
ComparisonStep == pc = "Compare" /\ pc' # "Compare"

\* C17: a poll whose read failed (error result, or no string returned)
\* writes nothing, keeps the baseline and goes back to the head of the
\* loop; after one or more such polls a read that differs from the
\* baseline appends exactly one CHANGED line and becomes the baseline, and
\* a read equal to the baseline appends nothing.
C17_TransientFailure ==
    [][ComparisonStep =>
          IF hr = "E_FAIL" \/ currentValue = <<>>
          THEN /\ out' = out
               /\ lastValue' = lastValue
               /\ pc' = "while"
               /\ exitStatus' = NoExit
               /\ held' = held
          ELSE missed =>
                 IF currentValue # lastValue
                 THEN /\ Len(out') = Len(out) + 1
                      /\ SubSeq(out', 1, Len(out)) = out
                      /\ out'[Len(out')].prefix = "CHANGED:"
                      /\ lastValue' = currentValue
                 ELSE out' = out /\ lastValue' = lastValue]_vars

\* a change has just been reported after a failed poll
C17_Witness ==
    /\ recovered
    /\ pc = "while"
    /\ calls["Poll"] >= 2
    /\ Len(out) = 2
    /\ out[2].prefix = "CHANGED:"

\* the window the _NET_ACTIVE_WINDOW property of the root yields: None
\* when the atom is not defined, the read fails, or no item is there
PropertyWindow ==
    IF /\ reply.atom
       /\ reply.prop.status = "Success"
       /\ reply.prop.data
       /\ reply.prop.nitems > 0
    THEN reply.prop.window
    ELSE 0

\* where in the log the first call of that name stands, 0 if nowhere
FirstAt(call) ==
    IF Has(call)
    THEN CHOOSE i \in 1..Len(xlog) :
           /\ xlog[i].call = call
           /\ \A j \in 1..(i - 1) : xlog[j].call # call
    ELSE 0

\* C18: without --window the atom of _NET_ACTIVE_WINDOW is looked up
\* first and, if defined, the property read; a window other than None
\* found there is the target and the input focus is not asked; in every
\* other case the input focus is asked, after the property, and the
\* target is exactly the window it names.
C18_ResolverOrder ==
    (WindowNotGiven /\ TargetKnown) =>
        /\ FirstAt("XInternAtom") = 3
        /\ Issued("XInternAtom", "_NET_ACTIVE_WINDOW") = 1
        /\ Has("XGetWindowProperty") <=> reply.atom
        /\ Has("XGetWindowProperty") => FirstAt("XGetWindowProperty") = 4
        /\ IF PropertyWindow # 0
           THEN win = PropertyWindow /\ ~Has("XGetInputFocus")
           ELSE /\ win = reply.focused
                /\ Issued("XGetInputFocus", "") = 1
                /\ FirstAt("XGetInputFocus") > FirstAt("XInternAtom")
                /\ FirstAt("XGetInputFocus") > FirstAt("XGetWindowProperty")
                /\ xlog[FirstAt("XGetInputFocus")].n = reply.focused

\* the property is there and holds None: the focus window is the target
C18_Witness ==
    /\ WindowNotGiven
    /\ lpc = "done"
    /\ reply.atom
    /\ reply.prop = [status |-> "Success", data |-> TRUE, nitems |-> 1,
                     window |-> 0]
    /\ reply.focused = 78
    /\ win = 78

\* p holds the leading characters of e (both run-length encoded)
IsLeadingPart(p, e) ==
    \/ p = <<>>
    \/ /\ Len(p) <= Len(e)
       /\ \A i \in 1..(Len(p) - 1) : p[i] = e[i]
       /\ p[Len(p)][1] = e[Len(p)][1]
       /\ p[Len(p)][2] <= e[Len(p)][2]

\* the line most recently written reports the value now held as baseline
ReportsBaseline ==
    /\ lastValue # <<>>
    /\ pc \notin {"InitialValue", "Cleanup", "done"}

\* C19: the payload of an INITIAL_VALUE or CHANGED line is the whole UTF-8
\* encoding of the value when encoding and terminator take at most 10240
\* bytes, else leading bytes of that encoding, 10240 at most; a value too
\* long is reported all the same.
C19_PayloadWithinCap ==
    ReportsBaseline =>
        /\ Len(out) >= 1
        /\ out[Len(out)].prefix \in {"INITIAL_VALUE:", "CHANGED:"}
        /\ LET payload  == out[Len(out)].payload
               encoding == Utf8Bytes(lastValue[1])
           IN  /\ ByteLen(payload) <= 10240
               /\ IF ByteLen(encoding) + 1 <= 10240
                  THEN payload = encoding
                  ELSE IsLeadingPart(payload, encoding)

\* C20: a value read is compared whole with the whole baseline: the step
\* appends a CHANGED line exactly when the two strings differ anywhere,
\* be it beyond the 10240 bytes the payload shows, and the baseline is
\* then the whole value read; a value read again unchanged adds nothing.
C20_WholeValueBaseline ==
    [][(ComparisonStep /\ hr = "S_OK" /\ currentValue # <<>>) =>
          /\ lastValue' = currentValue
          /\ IF currentValue[1] = lastValue[1]
             THEN out' = out
             ELSE /\ Len(out') = Len(out) + 1
                  /\ SubSeq(out', 1, Len(out)) = out
                  /\ out'[Len(out')].prefix = "CHANGED:"]_vars

\* 10241 x's, then 10240 x's: the CHANGED line shows the payload of the
\* line before it
C20_Witness ==
    /\ Len(out) >= 2
    /\ out[Len(out)].prefix = "CHANGED:"
    /\ out[Len(out)].payload = <<<<<<120>>, 10240>>>>
    /\ out[Len(out) - 1].payload = <<<<<<120>>, 10240>>>>
    /\ lastValue = <<<<<<120, 10240>>>>>>
====
